---- MODULE Spec2Model ----
(***************************************************************************)
(* CallbackFuture<T> (src/src/lib.rs): an adaptor between a callback API   *)
(* and a poll-based future.  The model follows the code statement by       *)
(* statement: the adapter's two fields, the mutex around the result slot,  *)
(* the Arc count of the slot, the position of the running poll call and of *)
(* the completion closure, which may run on poll's own stack (a loader     *)
(* that calls `complete` in its body) or on another thread.                *)
(*                                                                         *)
(* Spec      one adapter driven by an arbitrary scheduler (any handle,     *)
(*           spurious polls, polls after completion, drop).                *)
(* FairSpec  Spec with the fairness of the threads and of the wake-up.     *)
(* SpecJoin  three adapters under block_on(join!(..)) as in test_join.     *)
(***************************************************************************)
EXTENDS Integers, Sequences, FiniteSets

VARIABLES
    ctor,        \* [i -> [kind, v]]: how adapter i was constructed, and the value its operation yields
    loader,      \* [i -> BOOLEAN]: field `loader` is Some
    result,      \* [i -> NoVal or a value]: contents of the slot Mutex<Option<T>>
    locked,      \* [i -> BOOLEAN]: the slot's mutex is held
    refs,        \* [i -> Nat]: strong count of the slot's Arc
    alive,       \* [i -> BOOLEAN]: the adapter has not been dropped
    pollPc,      \* [i -> position of the running poll call]
    pollH,       \* [i -> handle supplied to the running poll]
    pollTrig,    \* [i -> the running poll was made in answer to a wake signal]
    cb,          \* [i -> the completion closure: position, captured waker, value, times run]
    log,         \* [i -> sequence of returned polls: handle, result, triggered]
    signals,     \* [h -> number of times handle h was signalled]
    woken,       \* handles signalled and not yet answered by a poll
    loaderCalls, \* [i -> number of times the loader was invoked]
    failed,      \* a step failed (use of a freed slot)
    jpc,         \* position of the joined task under block_on
    jk,          \* the child the join polls next
    out,         \* [i -> output kept by the join for child i]
    joined       \* the value block_on returned

vars == <<ctor, loader, result, locked, refs, alive, pollPc, pollH, pollTrig, cb,
          log, signals, woken, loaderCalls, failed, jpc, jk, out, joined>>

adapterVars == <<ctor, loader, result, locked, refs, alive, pollPc, pollH, pollTrig,
                 cb, log, signals, woken, loaderCalls, failed>>
joinVars == <<jpc, jk, out, joined>>

\* ---------------------------------------------------------------- bounds
MaxVal == 2        \* values of T are 1..MaxVal
MaxHandles == 2    \* notification handles are 1..MaxHandles
MaxPolls == 4      \* polls an arbitrary scheduler makes without being woken

Values == 1..MaxVal
Handles == 1..MaxHandles
NoVal == 0         \* Option::None
NoHandle == 0

Kinds == {"ready", "sync", "async"}

\* Poll<T>
PollPending == [t |-> "Pending", v |-> NoVal]
PollReady(v) == [t |-> "Ready", v |-> v]

Ads == DOMAIN loader

\* ---------------------------------------------------------- construction
\* (variant: the constructor runs the loader at once)
new_eager(k, v) == [loader |-> FALSE, result |-> NoVal, calls |-> 1]

\* CallbackFuture::new: the loader is stored, not called; the slot is empty.
new(k, v) == [loader |-> TRUE, result |-> NoVal, calls |-> 0]

\* (variant: the value is not put into the slot)
ready_empty(v) == [loader |-> FALSE, result |-> NoVal, calls |-> 0]

\* CallbackFuture::ready: no loader; the slot holds the value.
ready(v) == [loader |-> FALSE, result |-> v, calls |-> 0]

Construct(c) == IF c.kind = "ready" THEN ready(c.v) ELSE new(c.kind, c.v)

NoCallback == [pc |-> "none", waker |-> NoHandle, value |-> NoVal, runs |-> 0]

InitAdapters(A) ==
    /\ ctor \in [A -> [kind : Kinds, v : Values]]
    /\ loader = [i \in A |-> Construct(ctor[i]).loader]
    /\ result = [i \in A |-> Construct(ctor[i]).result]
    /\ locked = [i \in A |-> FALSE]
    /\ refs = [i \in A |-> 1]
    /\ alive = [i \in A |-> TRUE]
    /\ pollPc = [i \in A |-> "idle"]
    /\ pollH = [i \in A |-> NoHandle]
    /\ pollTrig = [i \in A |-> FALSE]
    /\ cb = [i \in A |-> NoCallback]
    /\ log = [i \in A |-> <<>>]
    /\ signals = [h \in Handles |-> 0]
    /\ woken = {}
    /\ loaderCalls = [i \in A |-> Construct(ctor[i]).calls]
    /\ failed = FALSE

\* ------------------------------------------------------------------ poll
\* (variant: the loader is read and left in the field)
LoaderPeek(i) == loader

\* self_mut.loader.take(): the field is left None.
LoaderTake(i) == [loader EXCEPT ![i] = FALSE]

\* cx.waker().clone(): the closure keeps the handle of this poll.
WakerClone(h) == h

\* (variant: the closure refers to the slot without owning it)
ResultBorrow(i) == refs

\* self_mut.result.clone(): one more owner of the slot.
ResultClone(i) == [refs EXCEPT ![i] = @ + 1]

\* (variant: a later poll hands its handle to the waiting closure)
poll_replacing_waker(i, h) ==
    /\ alive[i]
    /\ pollPc[i] = "idle"
    /\ pollH' = [pollH EXCEPT ![i] = h]
    /\ loader' = [loader EXCEPT ![i] = FALSE]
    /\ IF loader[i]
       THEN /\ refs' = [refs EXCEPT ![i] = @ + 1]
            /\ cb' = [cb EXCEPT ![i] = [pc |-> "armed", waker |-> h,
                                        value |-> ctor[i].v, runs |-> 0]]
            /\ loaderCalls' = [loaderCalls EXCEPT ![i] = @ + 1]
            /\ pollPc' = [pollPc EXCEPT ![i] = "in_loader"]
       ELSE /\ pollPc' = [pollPc EXCEPT ![i] = "lock"]
            /\ cb' = [cb EXCEPT ![i].waker = IF cb[i].pc \in {"none", "done"} THEN @ ELSE h]
            /\ UNCHANGED <<refs, loaderCalls>>
    /\ UNCHANGED <<ctor, result, locked, alive, log, signals, failed>>

\* (variant: poll takes the slot's guard first and holds it across the
\* loader's call)
poll_holding_guard(i, h) ==
    /\ alive[i]
    /\ pollPc[i] = "idle"
    /\ ~locked[i]
    /\ pollH' = [pollH EXCEPT ![i] = h]
    /\ loader' = [loader EXCEPT ![i] = FALSE]
    /\ IF loader[i]
       THEN /\ locked' = [locked EXCEPT ![i] = TRUE]
            /\ refs' = [refs EXCEPT ![i] = @ + 1]
            /\ cb' = [cb EXCEPT ![i] = [pc |-> "armed", waker |-> h,
                                        value |-> ctor[i].v, runs |-> 0]]
            /\ loaderCalls' = [loaderCalls EXCEPT ![i] = @ + 1]
            /\ pollPc' = [pollPc EXCEPT ![i] = "in_loader"]
       ELSE /\ pollPc' = [pollPc EXCEPT ![i] = "lock"]
            /\ UNCHANGED <<locked, refs, cb, loaderCalls>>
    /\ UNCHANGED <<ctor, result, alive, log, signals, failed>>

\* poll is entered with handle h; `match self_mut.loader.take()`.
\*   Some(loader): the closure is built and the loader is invoked with it.
\*   None:         poll goes on to lock the slot.
poll(i, h) ==
    /\ alive[i]
    /\ pollPc[i] = "idle"
    /\ pollH' = [pollH EXCEPT ![i] = h]
    /\ loader' = LoaderTake(i)
    /\ IF loader[i]
       THEN /\ refs' = ResultClone(i)
            /\ cb' = [cb EXCEPT ![i] = [pc |-> "armed", waker |-> WakerClone(h),
                                        value |-> ctor[i].v, runs |-> 0]]
            /\ loaderCalls' = [loaderCalls EXCEPT ![i] = @ + 1]
            /\ pollPc' = [pollPc EXCEPT ![i] = "in_loader"]
       ELSE /\ pollPc' = [pollPc EXCEPT ![i] = "lock"]
            /\ UNCHANGED <<refs, cb, loaderCalls>>
    /\ UNCHANGED <<ctor, result, locked, alive, log, signals, failed>>

\* (variant: after the loader's call poll goes on to take from the slot)
LoaderReturnsThenTakes(i) ==
    /\ pollPc[i] = "in_loader"
    /\ ctor[i].kind = "sync" => cb[i].pc = "done"
    /\ ~locked[i]
    /\ result' = [result EXCEPT ![i] = NoVal]
    /\ log' = [log EXCEPT ![i] = Append(@, [h |-> pollH[i],
                     ret |-> IF result[i] # NoVal THEN PollReady(result[i]) ELSE PollPending,
                     trig |-> pollTrig[i]])]
    /\ pollPc' = [pollPc EXCEPT ![i] = "idle"]
    /\ UNCHANGED <<ctor, loader, locked, refs, alive, pollH, pollTrig, cb,
                   signals, woken, loaderCalls, failed>>

\* The loader's call returns and poll returns Poll::Pending.  A loader that
\* calls `complete` in its body returns after the closure has run; one that
\* hands the closure to a thread returns at any time.
LoaderReturns(i) ==
    /\ pollPc[i] = "in_loader"
    /\ ctor[i].kind = "sync" => cb[i].pc = "done"
    /\ log' = [log EXCEPT ![i] = Append(@, [h |-> pollH[i], ret |-> PollPending,
                                            trig |-> pollTrig[i]])]
    /\ pollPc' = [pollPc EXCEPT ![i] = "idle"]
    /\ UNCHANGED <<ctor, loader, result, locked, refs, alive, pollH, pollTrig, cb,
                   signals, woken, loaderCalls, failed>>

\* (variant: the slot is entered without waiting for the guard)
MutexIgnored(i) == TRUE

\* Mutex::lock: taken only when free.
MutexFree(i) == ~locked[i]

\* self_mut.result.lock().unwrap()
PollLock(i) ==
    /\ pollPc[i] = "lock"
    /\ MutexFree(i)
    /\ locked' = [locked EXCEPT ![i] = TRUE]
    /\ pollPc' = [pollPc EXCEPT ![i] = "locked"]
    /\ UNCHANGED <<ctor, loader, result, refs, alive, pollH, pollTrig, cb, log,
                   signals, woken, loaderCalls, failed>>

\* (variant: the value is copied out and left in the slot)
SlotAfterPeek(x) == x

\* Option::take on the slot: what is left in it.
SlotAfterTake(x) == NoVal

\* (variant: the arm for None reports Ready, with no value behind it)
PollResultAlwaysReady(x) == PollReady(x)

\* (variant: the arm for Some also reports Pending)
PollResultPending(x) == PollPending

\* Some(value) => Poll::Ready(value), None => Poll::Pending
PollResult(x) == IF x # NoVal THEN PollReady(x) ELSE PollPending

\* (variant: a poll that finds the slot empty signals its own handle, to be
\* polled again)
PollTakeWakesSelf(i) ==
    /\ pollPc[i] = "locked"
    /\ result' = [result EXCEPT ![i] = NoVal]
    /\ locked' = [locked EXCEPT ![i] = FALSE]
    /\ log' = [log EXCEPT ![i] = Append(@, [h |-> pollH[i],
                     ret |-> IF result[i] # NoVal THEN PollReady(result[i]) ELSE PollPending,
                     trig |-> pollTrig[i]])]
    /\ pollPc' = [pollPc EXCEPT ![i] = "idle"]
    /\ signals' = IF result[i] = NoVal /\ signals[pollH[i]] = 0
                  THEN [signals EXCEPT ![pollH[i]] = @ + 1] ELSE signals
    /\ woken' = IF result[i] = NoVal THEN woken \cup {pollH[i]} ELSE woken
    /\ UNCHANGED <<ctor, loader, refs, alive, pollH, pollTrig, cb, loaderCalls, failed>>

\* .take() under the guard, the match on it, the guard's release, the return.
PollTake(i) ==
    /\ pollPc[i] = "locked"
    /\ result' = [result EXCEPT ![i] = SlotAfterTake(@)]
    /\ locked' = [locked EXCEPT ![i] = FALSE]
    /\ log' = [log EXCEPT ![i] = Append(@, [h |-> pollH[i],
                                            ret |-> PollResult(result[i]),
                                            trig |-> pollTrig[i]])]
    /\ pollPc' = [pollPc EXCEPT ![i] = "idle"]
    /\ UNCHANGED <<ctor, loader, refs, alive, pollH, pollTrig, cb, signals, woken,
                   loaderCalls, failed>>

\* ---------------------------------------------------- completion closure
\* The closure runs when the wrapped operation calls it: on poll's stack
\* inside the loader, or on the thread the loader gave it to.

\* (variant: the handle is signalled before the value is stored)
CompleteLockWakesFirst(i) ==
    /\ cb[i].pc = "armed"
    /\ ~locked[i]
    /\ locked' = [locked EXCEPT ![i] = TRUE]
    /\ cb' = [cb EXCEPT ![i].pc = "locked", ![i].runs = @ + 1]
    /\ failed' = (failed \/ refs[i] = 0)
    /\ signals' = [signals EXCEPT ![cb[i].waker] = @ + 1]
    /\ woken' = woken \cup {cb[i].waker}
    /\ UNCHANGED <<ctor, loader, result, refs, alive, pollPc, pollH, pollTrig, log,
                   loaderCalls>>

\* (variant: the guard is taken and nothing is stored)
CompleteStoreOmitted(i) ==
    /\ cb[i].pc = "locked"
    /\ locked' = [locked EXCEPT ![i] = FALSE]
    /\ cb' = [cb EXCEPT ![i].pc = "stored"]
    /\ UNCHANGED <<ctor, loader, result, refs, alive, pollPc, pollH, pollTrig, log,
                   signals, woken, loaderCalls, failed>>

\* (variant: the closure ends without signalling the handle)
CompleteWakeOmitted(i) ==
    /\ cb[i].pc = "stored"
    /\ refs' = [refs EXCEPT ![i] = @ - 1]
    /\ cb' = [cb EXCEPT ![i].pc = "done"]
    /\ UNCHANGED <<ctor, loader, result, locked, alive, pollPc, pollH, pollTrig, log,
                   signals, woken, loaderCalls, failed>>

\* (variant: the closure is callable again after it ran, as an FnMut is)
CompleteWakeCallableAgain(i) ==
    /\ cb[i].pc = "stored"
    /\ signals' = [signals EXCEPT ![cb[i].waker] = @ + 1]
    /\ woken' = woken \cup {cb[i].waker}
    /\ cb' = [cb EXCEPT ![i].pc = "armed"]
    /\ UNCHANGED <<ctor, loader, result, locked, refs, alive, pollPc, pollH, pollTrig,
                   log, loaderCalls, failed>>

\* The closure is a Box<dyn FnOnce(T)>: calling it consumes it.
\* result.lock().unwrap() in the closure
CompleteLock(i) ==
    /\ cb[i].pc = "armed"
    /\ MutexFree(i)
    /\ locked' = [locked EXCEPT ![i] = TRUE]
    /\ cb' = [cb EXCEPT ![i].pc = "locked", ![i].runs = @ + 1]
    /\ failed' = (failed \/ refs[i] = 0)
    /\ UNCHANGED <<ctor, loader, result, refs, alive, pollPc, pollH, pollTrig, log,
                   signals, woken, loaderCalls>>

\* *guard = Some(value); the guard is released at the end of the statement.
CompleteStore(i) ==
    /\ cb[i].pc = "locked"
    /\ result' = [result EXCEPT ![i] = cb[i].value]
    /\ locked' = [locked EXCEPT ![i] = FALSE]
    /\ cb' = [cb EXCEPT ![i].pc = "stored"]
    /\ UNCHANGED <<ctor, loader, refs, alive, pollPc, pollH, pollTrig, log, signals,
                   woken, loaderCalls, failed>>

\* waker.wake(); the closure ends and drops its clone of the slot.
CompleteWake(i) ==
    /\ cb[i].pc = "stored"
    /\ signals' = [signals EXCEPT ![cb[i].waker] = @ + 1]
    /\ woken' = woken \cup {cb[i].waker}
    /\ refs' = [refs EXCEPT ![i] = @ - 1]
    /\ cb' = [cb EXCEPT ![i].pc = "done"]
    /\ UNCHANGED <<ctor, loader, result, locked, alive, pollPc, pollH, pollTrig, log,
                   loaderCalls, failed>>

\* ------------------------------------------------------------------ drop
\* The owner drops the adapter (not while a poll borrows it): the loader,
\* if still there, is dropped uncalled, and the adapter's Arc is released.
drop(i) ==
    /\ alive[i]
    /\ pollPc[i] = "idle"
    /\ alive' = [alive EXCEPT ![i] = FALSE]
    /\ loader' = [loader EXCEPT ![i] = FALSE]
    /\ refs' = [refs EXCEPT ![i] = @ - 1]
    /\ UNCHANGED <<ctor, result, locked, pollPc, pollH, pollTrig, cb, log, signals,
                   woken, loaderCalls, failed>>

\* ------------------------------------------------- an arbitrary scheduler
\* A poll made in answer to a wake signal is always made; other polls
\* (the first one, spurious ones, polls after completion) are bounded.
SchedPoll ==
    \E i \in Ads :
        /\ Len(log[i]) < MaxPolls \/ woken # {}
        /\ \E h \in Handles : poll(i, h)
        /\ pollTrig' = [pollTrig EXCEPT ![i] = (woken # {})]
        /\ woken' = {}
        /\ UNCHANGED joinVars

SchedDrop == \E i \in Ads : drop(i) /\ UNCHANGED joinVars

\* The steps of a poll in progress and of the completion closure.
DoLoaderReturns == \E i \in Ads : LoaderReturns(i) /\ UNCHANGED joinVars
DoPollLock == \E i \in Ads : PollLock(i) /\ UNCHANGED joinVars
DoPollTake == \E i \in Ads : PollTake(i) /\ UNCHANGED joinVars
DoCompleteLock == \E i \in Ads : CompleteLock(i) /\ UNCHANGED joinVars
DoCompleteStore == \E i \in Ads : CompleteStore(i) /\ UNCHANGED joinVars
DoCompleteWake == \E i \in Ads : CompleteWake(i) /\ UNCHANGED joinVars

PollSteps == DoLoaderReturns \/ DoPollLock \/ DoPollTake
CompleteSteps == DoCompleteLock \/ DoCompleteStore \/ DoCompleteWake

Init ==
    /\ InitAdapters({1})
    /\ jpc = "none" /\ jk = 0 /\ out = <<>> /\ joined = <<>>

Next ==
    \/ SchedPoll
    \/ SchedDrop
    \/ DoLoaderReturns
    \/ DoPollLock
    \/ DoPollTake
    \/ DoCompleteLock
    \/ DoCompleteStore
    \/ DoCompleteWake

Spec == Init /\ [][Next]_vars

\* The poll call and the thread running the closure make progress, and a
\* scheduler that was signalled polls again.
FairSpec ==
    /\ Spec
    /\ WF_vars(PollSteps)
    /\ WF_vars(CompleteSteps)
    /\ WF_vars(SchedPoll /\ woken # {})

\* ------------------------------------------- block_on(join!(fu1, fu2, fu3))
\* test_join: the three adapters are polled in order by one task, with the
\* task's one waker; a finished child is not polled again; the task parks
\* until its waker is signalled.
JoinAds == {1, 2, 3}
JoinWaker == 1

\* (variant: the second and third outputs change places)
JoinOutputSwapped == <<out[1], out[3], out[2]>>

\* the tuple join! yields: the children's outputs in the order written
JoinOutput == <<out[1], out[2], out[3]>>

JoinSkip ==
    /\ jpc = "run" /\ jk \in JoinAds /\ out[jk] # NoVal
    /\ jk' = jk + 1
    /\ UNCHANGED <<jpc, out, joined>>
    /\ UNCHANGED adapterVars

JoinPollChild ==
    /\ jpc = "run" /\ jk \in JoinAds /\ out[jk] = NoVal
    /\ poll(jk, JoinWaker)
    /\ jpc' = "child"
    /\ UNCHANGED <<jk, out, joined, pollTrig, woken>>

JoinChildReturned ==
    /\ jpc = "child" /\ pollPc[jk] = "idle"
    /\ out' = [out EXCEPT ![jk] = log[jk][Len(log[jk])].ret.v]
    /\ jk' = jk + 1
    /\ jpc' = "run"
    /\ UNCHANGED joined
    /\ UNCHANGED adapterVars

JoinEnd ==
    /\ jpc = "run" /\ jk \notin JoinAds
    /\ IF \A i \in JoinAds : out[i] # NoVal
       THEN joined' = JoinOutput /\ jpc' = "done"
       ELSE joined' = joined /\ jpc' = "parked"
    /\ UNCHANGED <<jk, out>>
    /\ UNCHANGED adapterVars

JoinUnpark ==
    /\ jpc = "parked" /\ woken # {}
    /\ woken' = {}
    /\ jk' = 1
    /\ jpc' = "run"
    /\ UNCHANGED <<out, joined>>
    /\ UNCHANGED <<ctor, loader, result, locked, refs, alive, pollPc, pollH, pollTrig,
                   cb, log, signals, loaderCalls, failed>>

\* one ready-constructed, one synchronous, one asynchronous adapter, in any order
InitJoin ==
    /\ InitAdapters(JoinAds)
    /\ \A i, j \in JoinAds : i # j => ctor[i].kind # ctor[j].kind
    /\ jpc = "run" /\ jk = 1
    /\ out = [i \in JoinAds |-> NoVal]
    /\ joined = <<>>

NextJoin ==
    \/ JoinSkip
    \/ JoinPollChild
    \/ JoinChildReturned
    \/ JoinEnd
    \/ JoinUnpark
    \/ DoLoaderReturns
    \/ DoPollLock
    \/ DoPollTake
    \/ DoCompleteLock
    \/ DoCompleteStore
    \/ DoCompleteWake

SpecJoin == InitJoin /\ [][NextJoin]_vars

\* ------------------------------------------------------------ properties
\* the polls of adapter i that returned Ready
ReadyIdx(i) == {k \in 1..Len(log[i]) : log[i][k].ret.t = "Ready"}
Delivered(i) == ReadyIdx(i) # {}
\* poll k of adapter i returned before any poll had returned Ready
BeforeDelivery(i, k) == \A j \in 1..(k - 1) : log[i][j].ret = PollPending

\* C1: an adapter built by `ready(v)` returns Ready(v) on its first poll; no
\* poll before it returned Pending, and no loader is invoked nor a completion
\* closure created.
C1_ReadyFirstPoll ==
    \A i \in Ads :
        ctor[i].kind = "ready" =>
            /\ loaderCalls[i] = 0
            /\ cb[i].pc = "none"
            /\ Len(log[i]) >= 1 => log[i][1].ret = PollReady(ctor[i].v)

C1_Witness ==
    \E i \in Ads :
        /\ ctor[i] = [kind |-> "ready", v |-> MaxVal]
        /\ Len(log[i]) = 1
        /\ log[i][1].ret = PollReady(MaxVal)

\* C2: with a loader that calls `complete(v)` in its body, the first poll
\* returns Pending with the first poll's handle already signalled, and the
\* second poll, the one answering that signal, returns Ready(v).
C2_SyncSecondPoll ==
    \A i \in Ads :
        ctor[i].kind = "sync" =>
            /\ Len(log[i]) >= 1 =>
                  /\ log[i][1].ret = PollPending
                  /\ signals[log[i][1].h] = 1
            /\ Len(log[i]) >= 2 =>
                  /\ log[i][2].trig
                  /\ log[i][2].ret = PollReady(ctor[i].v)

C2_Witness ==
    \E i \in Ads :
        /\ ctor[i].kind = "sync"
        /\ Len(log[i]) = 2
        /\ log[i][1].ret = PollPending
        /\ log[i][2].ret = PollReady(ctor[i].v)
        /\ log[i][2].trig

\* C3: with a loader that hands the closure to another thread, once the
\* loader was invoked a poll eventually returns Ready(v), unless the owner
\* drops the adapter first; under fair scheduling of the closure's thread
\* and a scheduler that polls again when signalled.
C3_AsyncEventuallyReady ==
    (ctor[1].kind = "async" /\ loaderCalls[1] = 1)
        ~> (~alive[1] \/ \E k \in ReadyIdx(1) : log[1][k].ret = PollReady(ctor[1].v))

C3_Witness ==
    /\ ctor[1].kind = "async"
    /\ alive[1]
    /\ Len(log[1]) = 2
    /\ log[1][2].trig
    /\ log[1][2].ret = PollReady(ctor[1].v)

\* C4: the loader is invoked at most once, whatever polls are made.
C4_LoaderAtMostOnce == \A i \in Ads : loaderCalls[i] <= 1

\* two polls before the closure stored anything, one that extracts, one after
C4_Witness ==
    \E i \in Ads :
        /\ loaderCalls[i] = 1
        /\ Len(log[i]) = 4
        /\ log[i][1].ret = PollPending
        /\ log[i][2].ret = PollPending
        /\ log[i][3].ret.t = "Ready"
        /\ log[i][4].ret = PollPending

\* C5: with the closure called from another thread, racing the polls: at
\* most one poll returns Ready, it carries v, no step fails, and once a poll
\* that answered the closure's signal has returned exactly one poll has
\* returned Ready.
C5_ExactlyOnce ==
    \A i \in Ads :
        ctor[i].kind = "async" =>
            /\ Cardinality(ReadyIdx(i)) <= 1
            /\ \A k \in ReadyIdx(i) : log[i][k].ret = PollReady(ctor[i].v)
            /\ ~failed
            /\ (\E k \in 1..Len(log[i]) : log[i][k].trig) => Cardinality(ReadyIdx(i)) = 1

\* the value was extracted by a poll that raced the closure (it came before
\* the signal), and a later poll returned Pending
C5_Witness ==
    \E i \in Ads :
        /\ ctor[i].kind = "async"
        /\ ReadyIdx(i) = {2}
        /\ ~log[i][2].trig
        /\ Len(log[i]) >= 3
        /\ cb[i].pc = "done"

\* C6 (as claimed): once the result is available and the closure has
\* signalled, every handle supplied to a poll that returned Pending before
\* the value was delivered has been signalled.
C6_NotifiesSuppliedHandle ==
    \A i \in Ads :
        cb[i].pc = "done" =>
            \A k \in 1..Len(log[i]) :
                (log[i][k].ret = PollPending /\ BeforeDelivery(i, k))
                    => signals[log[i][k].h] >= 1

\* C7: the closure signals after its store is complete: after the signal the
\* slot holds the value until a poll extracts it, and a poll made in answer
\* to the signal, no poll having extracted the value before, returns Ready.
C7_StoreBeforeWake ==
    \A i \in Ads :
        /\ (cb[i].waker \in Handles /\ signals[cb[i].waker] >= 1 /\ ~Delivered(i))
              => result[i] = cb[i].value
        /\ \A k \in 1..Len(log[i]) :
              (log[i][k].trig /\ BeforeDelivery(i, k))
                  => log[i][k].ret = PollReady(ctor[i].v)

C7_Witness ==
    \E i \in Ads :
        /\ ctor[i].kind = "async"
        /\ Len(log[i]) = 3
        /\ log[i][2].ret = PollPending
        /\ log[i][3].trig
        /\ log[i][3].ret = PollReady(ctor[i].v)

\* C8 (as claimed): once a poll has returned Ready the slot is empty and the
\* loader absent, no later poll returns Ready, and no handle is signalled
\* any more.
C8_NoSignalAfterReady ==
    [][\A i \in Ads :
          Delivered(i) =>
              /\ result[i] = NoVal /\ ~loader[i]
              /\ result'[i] = NoVal /\ ~loader'[i]
              /\ ReadyIdx(i)' = ReadyIdx(i)
              /\ signals' = signals]_vars

\* C8 (amended): once a poll has returned Ready the slot is empty and the
\* loader absent, and every later poll returns Pending: the value is taken
\* out once and not replayed.  The one signal that can still follow is the
\* closure's own, of the first poll's handle, when the value was extracted
\* between the closure's store and its wake.
C8_ConsumedStaysConsumed ==
    [][\A i \in Ads :
          Delivered(i) =>
              /\ result[i] = NoVal /\ ~loader[i]
              /\ result'[i] = NoVal /\ ~loader'[i]
              /\ ReadyIdx(i)' = ReadyIdx(i)
              /\ Cardinality(ReadyIdx(i)) = 1
              /\ signals' # signals =>
                    /\ cb[i].pc = "stored" /\ cb'[i].pc = "done"
                    /\ signals' = [signals EXCEPT ![log[i][1].h] = @ + 1]]_vars

\* a poll after the extracting one returned Pending, and the closure's
\* signal came after the extraction
C8_Witness ==
    \E i \in Ads :
        /\ ReadyIdx(i) = {2}
        /\ ~log[i][2].trig
        /\ Len(log[i]) = 4
        /\ log[i][3].ret = PollPending
        /\ log[i][4].ret = PollPending
        /\ signals[log[i][1].h] = 1

\* C9: block_on(join!(..)) over a ready-constructed, a synchronous and an
\* asynchronous adapter returns the adapters' values in the adapters'
\* positions, whatever the order of the completions and the polls.
C9_JoinPositional ==
    jpc = "done" => joined = <<ctor[1].v, ctor[2].v, ctor[3].v>>

\* the asynchronous adapter comes first and finished in a later round than
\* the other two, with values that tell the positions apart
C9_Witness ==
    /\ jpc = "done"
    /\ ctor[1].kind = "async" /\ ctor[2].kind = "sync" /\ ctor[3].kind = "ready"
    /\ ctor[1].v # ctor[2].v /\ ctor[2].v # ctor[3].v
    /\ Len(log[1]) > Len(log[2])
    /\ joined = <<ctor[1].v, ctor[2].v, ctor[3].v>>

\* the adapter was dropped after its first poll, with the closure still to run
DroppedPending(i) == ~alive[i] /\ loaderCalls[i] = 1

\* C10 (as claimed): after the adapter was dropped, the closure's run does
\* not fail, no poll returns its value, and nothing the rest of the system
\* observes changes.
C10_NoEffectAfterDrop ==
    [][\A i \in Ads :
          DroppedPending(i) => (~failed' /\ log' = log /\ signals' = signals)]_vars

\* C10 (amended): after the adapter was dropped, the closure's run does not
\* fail, no poll returns its value, the slot is freed when the closure ends,
\* and the one effect the rest of the system observes is the closure's
\* signal of the handle of the first poll.
C10_OnlyWakeAfterDrop ==
    /\ [][\A i \in Ads :
             DroppedPending(i) =>
                 /\ ~failed'
                 /\ log' = log
                 /\ signals' # signals =>
                       /\ cb[i].pc = "stored" /\ cb'[i].pc = "done"
                       /\ signals' = [signals EXCEPT ![log[i][1].h] = @ + 1]]_vars
    /\ [](\A i \in Ads :
             (DroppedPending(i) /\ cb[i].pc = "done") => (refs[i] = 0 /\ ~locked[i]))

\* the closure stored and signalled after the drop
C10_Witness ==
    \E i \in Ads :
        /\ DroppedPending(i)
        /\ cb[i].pc = "done"
        /\ result[i] = ctor[i].v
        /\ Len(log[i]) = 1
        /\ signals[log[i][1].h] = 1

\* C11 (as claimed): after the closure was invoked, and before a poll has
\* extracted the value, the adapter accepts a second invocation that
\* overwrites the slot.
C11_SecondInvocationAccepted ==
    \A i \in Ads :
        (cb[i].pc = "done" /\ result[i] # NoVal) => ENABLED CompleteLock(i)

\* C11 (amended): the closure is consumed by its one invocation, so the slot
\* is written at most once, with the value passed to that invocation, and
\* the extracting poll returns that value; no step fails.
C11_CompletedAtMostOnce ==
    \A i \in Ads :
        /\ cb[i].runs <= 1
        /\ \A h \in Handles : signals[h] <= cb[i].runs
        /\ (ctor[i].kind # "ready" /\ result[i] # NoVal) => result[i] = cb[i].value
        /\ \A k \in ReadyIdx(i) : log[i][k].ret = PollReady(ctor[i].v)
        /\ ~failed

\* the closure ran, its value is in the slot, no poll has extracted it
C11_Witness ==
    \E i \in Ads :
        /\ cb[i].pc = "done" /\ cb[i].runs = 1
        /\ result[i] = cb[i].value
        /\ pollPc[i] = "idle"
        /\ ~Delivered(i)

\* C12: construction does not invoke the loader: an adapter built with a
\* loader and not yet polled has made no loader call, has no completion
\* closure and an empty slot (also when it is dropped unpolled); the loader
\* is invoked in the first poll, so once a poll was entered it has been
\* invoked once.
C12_LoaderDeferredToFirstPoll ==
    \A i \in Ads :
        ctor[i].kind # "ready" =>
            /\ (Len(log[i]) = 0 /\ pollPc[i] = "idle") =>
                  /\ loaderCalls[i] = 0
                  /\ cb[i].pc = "none"
                  /\ result[i] = NoVal
                  /\ signals = [h \in Handles |-> 0]
            /\ (Len(log[i]) >= 1 \/ pollPc[i] # "idle") => loaderCalls[i] = 1

\* the first poll is inside the loader's call, which it has just made
C12_Witness ==
    \E i \in Ads :
        /\ ctor[i].kind = "async"
        /\ Len(log[i]) = 0
        /\ pollPc[i] = "in_loader"
        /\ loaderCalls[i] = 1
        /\ cb[i].pc = "armed"

\* C13: the poll that found the loader present returns Pending, also when
\* the closure has stored its value before that poll returns; it takes
\* nothing from the slot, which keeps the value for the next poll.
C13_LoaderPollPending ==
    [][\A i \in Ads :
          (pollPc[i] = "in_loader" /\ pollPc'[i] # "in_loader") =>
              /\ pollPc'[i] = "idle"
              /\ Len(log'[i]) = Len(log[i]) + 1
              /\ log'[i][Len(log'[i])].ret = PollPending
              /\ log'[i][Len(log'[i])].h = pollH[i]
              /\ result'[i] = result[i]]_vars

\* the loader's poll returned Pending with the value already in the slot
C13_Witness ==
    \E i \in Ads :
        /\ ctor[i].kind = "sync"
        /\ Len(log[i]) = 1
        /\ log[i][1].ret = PollPending
        /\ result[i] = ctor[i].v
        /\ pollPc[i] = "idle" /\ alive[i]

\* the value adapter i was given: by `ready`, or by the closure's invocation
GivenValue(i) == IF ctor[i].kind = "ready" THEN ctor[i].v ELSE cb[i].value

\* C14: a poll returns Ready(x) only from the None arm, with the loader
\* absent and x in the slot under the guard; x is the value given to `ready`
\* or passed to the closure, unaltered; the slot is empty right after.
C14_ReadyOnlyFromSlot ==
    [][\A i \in Ads :
          (Len(log'[i]) > Len(log[i]) /\ log'[i][Len(log'[i])].ret.t = "Ready") =>
              /\ ~loader[i]
              /\ pollPc[i] = "locked"
              /\ result[i] # NoVal
              /\ log'[i][Len(log'[i])].ret = PollReady(result[i])
              /\ result[i] = GivenValue(i)
              /\ ctor[i].kind # "ready" => cb[i].runs = 1
              /\ result'[i] = NoVal]_vars

\* a loader-built adapter's third poll, not one answering a signal, has just
\* extracted the closure's value
C14_Witness ==
    \E i \in Ads :
        /\ ctor[i].kind = "async"
        /\ Len(log[i]) = 3
        /\ ~log[i][3].trig
        /\ log[i][3].ret = PollReady(cb[i].value)
        /\ result[i] = NoVal
        /\ ~loader[i]

\* C15: the loader being present and the slot holding a value never hold
\* together; a freshly constructed adapter has exactly one of the two; and
\* while a loader-built adapter's loader has not been taken out there is no
\* completion closure and its slot is empty.
C15_LoaderXorValue ==
    \A i \in Ads :
        /\ ~(loader[i] /\ result[i] # NoVal)
        /\ (Len(log[i]) = 0 /\ pollPc[i] = "idle" /\ alive[i])
              => (loader[i] # (result[i] # NoVal))
        /\ loader[i] => (cb[i].pc = "none" /\ loaderCalls[i] = 0)
        /\ (ctor[i].kind # "ready" /\ loaderCalls[i] = 0)
              => (result[i] = NoVal /\ cb[i].pc = "none")

\* the closure filled the slot of a loader-built adapter, whose loader the
\* first poll, still running, had taken out
C15_Witness ==
    \E i \in Ads :
        /\ ctor[i].kind = "async"
        /\ pollPc[i] = "in_loader"
        /\ ~loader[i]
        /\ cb[i].pc = "stored"
        /\ result[i] = cb[i].value

\* C16: the closure's store and poll's take are serialized by the slot's one
\* guard: the two are never inside it together, the guard is held exactly
\* while one of them is inside, and once the closure has stored, its value
\* is either whole in the slot and not yet delivered, or delivered by exactly
\* one poll and gone from the slot: not lost, not duplicated.
C16_GuardSerializes ==
    \A i \in Ads :
        /\ ~(pollPc[i] = "locked" /\ cb[i].pc = "locked")
        /\ locked[i] <=> (pollPc[i] = "locked" \/ cb[i].pc = "locked")
        /\ result[i] \in {NoVal, GivenValue(i)}
        /\ cb[i].pc \in {"stored", "done"} =>
              \/ result[i] = cb[i].value /\ ~Delivered(i)
              \/ /\ result[i] = NoVal
                 /\ Cardinality(ReadyIdx(i)) = 1
                 /\ \A k \in ReadyIdx(i) : log[i][k].ret = PollReady(cb[i].value)

\* a poll waits at the guard while the closure is inside it
C16_Witness ==
    \E i \in Ads :
        /\ pollPc[i] = "lock"
        /\ cb[i].pc = "locked"
        /\ locked[i]

\* C17: poll does not hold the slot's guard while the loader runs: during
\* the loader's call the guard is free or held by the closure, a closure
\* called in the loader's body finds it free, and a poll that waits at the
\* guard waits for the closure running on another thread, not for its own
\* call stack.
C17_NoGuardAcrossLoader ==
    \A i \in Ads :
        /\ pollPc[i] = "in_loader" => (locked[i] => cb[i].pc = "locked")
        /\ (pollPc[i] = "in_loader" /\ cb[i].pc = "armed") => ~locked[i]
        /\ (pollPc[i] = "lock" /\ locked[i])
              => (cb[i].pc = "locked" /\ ctor[i].kind = "async")

\* the closure, called in the loader's body, is inside the guard while poll
\* is inside the loader's call
C17_Witness ==
    \E i \in Ads :
        /\ ctor[i].kind = "sync"
        /\ pollPc[i] = "in_loader"
        /\ cb[i].pc = "locked"
        /\ locked[i]

\* the handle supplied to the first poll of adapter i
FirstHandle(i) == IF Len(log[i]) >= 1 THEN log[i][1].h ELSE pollH[i]

\* C18: a poll that finds the loader absent and the slot empty returns
\* Pending and changes nothing of the adapter: the loader stays absent, the
\* slot empty, the closure and the slot's owners as they were; the handle it
\* was given is not kept: the closure holds the first poll's handle, and
\* that is the one handle ever signalled.
C18_EmptyPollChangesNothing ==
    /\ [][\A i \in Ads :
             (pollPc[i] = "locked" /\ pollPc'[i] = "idle" /\ result[i] = NoVal) =>
                 /\ log'[i][Len(log'[i])].ret = PollPending
                 /\ ~loader[i] /\ ~loader'[i]
                 /\ result'[i] = NoVal
                 /\ cb'[i] = cb[i]
                 /\ refs'[i] = refs[i]
                 /\ signals' = signals]_vars
    /\ [](\A i \in Ads :
             cb[i].pc # "none" =>
                 /\ cb[i].waker = FirstHandle(i)
                 /\ \A h \in Handles : signals[h] >= 1 => h = FirstHandle(i))

\* a second poll, with another handle, returned Pending; the closure then
\* signalled the first poll's handle and not the second's
C18_Witness ==
    \E i \in Ads :
        /\ Len(log[i]) = 2
        /\ log[i][2].ret = PollPending
        /\ log[i][2].h # log[i][1].h
        /\ cb[i].pc = "done"
        /\ signals[log[i][1].h] = 1
        /\ signals[log[i][2].h] = 0

\* C19: a handle is signalled only by the completion closure's wake, once
\* per invocation of the closure: every signal is the last step of a closure
\* and goes to the handle the closure holds, and each handle's count of
\* signals is the number of finished closures holding it.  So an adapter
\* built by `ready`, or one whose loader was not invoked, signals nothing,
\* and poll signals nothing.
C19_SignalsOnlyFromClosure ==
    /\ [][signals' # signals =>
             \E i \in Ads :
                 /\ cb[i].pc = "stored" /\ cb'[i].pc = "done"
                 /\ cb[i].runs = 1
                 /\ signals' = [signals EXCEPT ![cb[i].waker] = @ + 1]
                 /\ pollPc'[i] = pollPc[i] /\ log'[i] = log[i]]_vars
    /\ [](\A h \in Handles :
             signals[h] = Cardinality({i \in Ads : cb[i].pc = "done" /\ cb[i].waker = h}))

\* four polls were made and the one signal is the closure's
C19_Witness ==
    \E i \in Ads :
        /\ cb[i].pc = "done"
        /\ Len(log[i]) = 4
        /\ signals[cb[i].waker] = 1
        /\ \A h \in Handles : h # cb[i].waker => signals[h] = 0

====
